---- MODULE Spec2Model ----
(***************************************************************************)
(* noesis2hzw: the schema loader (structures.ts), the type emitter          *)
(* (structures.ts) and the data transformer (datasets.ts), run in the       *)
(* order the command line's action runs them (cli.ts).                      *)
(*                                                                          *)
(* Representation.                                                          *)
(*  - A JavaScript Map is a sequence of [key, val] records in insertion     *)
(*    order; MapSet replaces in place or appends, as Map.prototype.set.     *)
(*  - A dotted name ("Model.Card") is the sequence of its segments          *)
(*    (<<"Model", "Card">>), so that split(".") is the identity on the      *)
(*    representation and the last segment is its last element.              *)
(*  - A function that can throw returns [thrown, value].                    *)
(*  - Indentation and line breaks of the emitted text are left out: an      *)
(*    emitted literal is the tree of its entries, a scalar its text.        *)
(***************************************************************************)
EXTENDS Naturals, Sequences, FiniteSets, TLC

VARIABLES
  pc,              \* position of cli.ts's action
  typesOnly,       \* options.typesOnly
  structureFiles,  \* the entries of <dataPath>/structures, in readdir order
  i,               \* readStructures' loop index (1-based)
  structures,      \* the registry: NoesisStructureMap
  typesFile,       \* NoesisTypes.ts: the declarations written, in order
  dataFiles,       \* the data files of <dataPath>/sets that the run lists
  j,               \* outputDataSets' loop index (1-based)
  scriptFiles,     \* the data modules written, in order
  console          \* what the data transformer has logged with console.warn/error

vars == <<pc, typesOnly, structureFiles, i, structures, typesFile, dataFiles, j, scriptFiles, console>>

(***************************************************************************)
(* Map                                                                      *)
(***************************************************************************)
MapKeys(m) == [k \in 1..Len(m) |-> m[k].key]

MapHas(m, key) == \E k \in 1..Len(m) : m[k].key = key

MapGet(m, key) == m[CHOOSE k \in 1..Len(m) : m[k].key = key].val

\* MapSet that keeps the entry a key already has.
MapSetKeepFirst(m, key, val) ==
  IF MapHas(m, key) THEN m ELSE Append(m, [key |-> key, val |-> val])

MapSet(m, key, val) ==
  IF MapHas(m, key)
  THEN [k \in 1..Len(m) |-> IF m[k].key = key THEN [key |-> key, val |-> val] ELSE m[k]]
  ELSE Append(m, [key |-> key, val |-> val])

Last(s) == s[Len(s)]

(***************************************************************************)
(* types.ts                                                                 *)
(***************************************************************************)
NoesisBuiltInEnums ==
  << [name |-> "Visibility",          items |-> <<"Collapsed", "Visible", "Hidden">>],
     [name |-> "Orientation",         items |-> <<"Horizontal", "Vertical">>],
     [name |-> "HorizontalAlignment", items |-> <<"Left", "Center", "Right", "Stretch">>],
     [name |-> "VerticalAlignment",   items |-> <<"Top", "Center", "Bottom", "Stretch">>],
     [name |-> "TextAlignment",       items |-> <<"Left", "Center", "Right", "Justify">>],
     [name |-> "TextWrapping",        items |-> <<"NoWrap", "Wrap", "WrapWithOverflow">>],
     [name |-> "TextTrimming",        items |-> <<"None", "CharacterEllipsis", "WordEllipsis">>],
     [name |-> "FlowDirection",       items |-> <<"LeftToRight", "RightToLeft">>],
     [name |-> "FontFamily",          items |-> <<"Anton", "Bangers", "Oswald", "Roboto", "Roboto-Mono">>] >>

NoesisBuiltInSubTypes ==
  <<"Single", "Boolean", "String", "Color", "BitmapImage", "SolidColorBrush", "MessageCommand">>

noesisSubtypeToTSConverter(type) ==
  CASE type = "Single"      -> "number"
    [] type = "String"      -> "string"
    [] type = "Bool"        -> "boolean"
    [] type = "ImageSource" -> "string | ImageSource"
    [] type = "Brush"       -> "string | Brush"
    [] type = "BaseCommand" -> "(parameter?: unknown) => unknown"
    [] OTHER                -> type

noesisSubtypeToNoesisTypeConverter(type) ==
  CASE type = "Bool"        -> "Boolean"
    [] type = "ImageSource" -> "BitmapImage"
    [] type = "Brush"       -> "SolidColorBrush"
    [] type = "BaseCommand" -> "MessageCommand"
    [] OTHER                -> type

\* The three shapes of a registry entry, as one record shape.
NoesisClass(name, properties) ==
  [type |-> "Class", name |-> name, properties |-> properties, items |-> <<>>]

NoesisEnum(name, items) ==
  [type |-> "Enum", name |-> name, properties |-> <<>>, items |-> items]

NoesisBuiltIn(name) ==
  [type |-> "BuiltIn", name |-> name, properties |-> <<>>, items |-> <<>>]

\* NoesisProperty: the kind and, for Object, Enum and Collection, the subType.
\* The word-count, number-range and image-path fields are carried by the
\* source but read by neither the emitter nor the transformer.
NoesisProperty(type, subType) == [type |-> type, subType |-> subType]

(***************************************************************************)
(* structures.ts: the schema loader                                         *)
(***************************************************************************)
Return(v) == [thrown |-> FALSE, value |-> v, log |-> <<>>]

Throw == [thrown |-> TRUE, value |-> <<>>, log |-> <<>>]

\* property: [Name, Type, SubType], SubType the segments of the attribute.
processProperty(property) ==
  CASE property.Type = "Object" ->
         (CASE property.SubType = <<"Brush">>       -> Return(NoesisProperty("Brush", ""))
            [] property.SubType = <<"ImageSource">> -> Return(NoesisProperty("Image", ""))
            [] property.SubType = <<"FontFamily">>  -> Return(NoesisProperty("Font", ""))
            [] OTHER -> Return(NoesisProperty("Object", Last(property.SubType))))
    [] property.Type = "Enum"       -> Return(NoesisProperty("Enum", Last(property.SubType)))
    [] property.Type = "String"     -> Return(NoesisProperty("String", ""))
    [] property.Type = "Number"     -> Return(NoesisProperty("Number", ""))
    [] property.Type = "Boolean"    -> Return(NoesisProperty("Boolean", ""))
    [] property.Type = "Collection" -> Return(NoesisProperty("Collection", Last(property.SubType)))
    [] property.Type = "Command"    -> Return(NoesisProperty("Command", ""))
    [] OTHER -> Throw

\* xml2js with explicitArray: false gives no field for no child element, the
\* element itself for one, and an array only for two or more.
IsArray(children) == Len(children) >= 2

RECURSIVE setPropertiesStopAtError(_, _)
\* setProperties with one try around the whole forEach: the first property
\* that fails to classify ends the walk.
setPropertiesStopAtError(properties, props) ==
  IF props = <<>> THEN properties
  ELSE LET r == processProperty(Head(props)) IN
       IF r.thrown THEN properties
       ELSE setPropertiesStopAtError(MapSet(properties, Head(props).Name, r.value), Tail(props))

RECURSIVE setProperties(_, _)
\* data.Class.Property.forEach(...): a property that fails to classify is
\* logged and left out.
setProperties(properties, props) ==
  IF props = <<>> THEN properties
  ELSE LET r == processProperty(Head(props)) IN
       setProperties(IF r.thrown THEN properties
                     ELSE MapSet(properties, Head(props).Name, r.value),
                     Tail(props))

processClassStructure(data) ==
  IF IsArray(data.Property)
  THEN Return(NoesisClass(data.Name, setProperties(<<>>, data.Property)))
  ELSE IF data.Property = <<>>
       \* processProperty(undefined) throws inside the try, and the handler's
       \* own data.Class.Property.Name throws again, uncaught
       THEN Throw
       ELSE Return(NoesisClass(data.Name, setProperties(<<>>, data.Property)))

RECURSIVE setItems(_, _)
setItems(items, list) ==
  IF list = <<>> THEN items
  ELSE setItems(MapSet(items, Head(list).Name, Head(list).Value), Tail(list))

processEnumStructure(data) ==
  IF IsArray(data.Item)
  THEN Return(NoesisEnum(data.Name, setItems(<<>>, data.Item)))
  \* data.Enum.Item.forEach is not a function: one Item is not an array
  ELSE Throw

RECURSIVE indexItems(_, _, _)
\* items.forEach((item, index) => noesisEnum.items.set(item, index))
indexItems(items, list, index) ==
  IF list = <<>> THEN items
  ELSE indexItems(MapSet(items, Head(list), index), Tail(list), index + 1)

RECURSIVE addBuiltInEnumsFrom(_, _)
addBuiltInEnumsFrom(m, list) ==
  IF list = <<>> THEN m
  ELSE addBuiltInEnumsFrom(
         MapSet(m, Head(list).name, NoesisEnum(Head(list).name, indexItems(<<>>, Head(list).items, 0))),
         Tail(list))

addBuiltInEnums(m) == addBuiltInEnumsFrom(m, NoesisBuiltInEnums)

RECURSIVE addBuiltInTypesFrom(_, _)
addBuiltInTypesFrom(m, list) ==
  IF list = <<>> THEN m
  ELSE addBuiltInTypesFrom(MapSet(m, Head(list), NoesisBuiltIn(Head(list))), Tail(list))

addBuiltInTypes(m) == addBuiltInTypesFrom(m, NoesisBuiltInSubTypes)

\* What one iteration of readStructures' loop does with one directory entry:
\* the registry after it, or a throw that rejects readStructures.
readStructureFile(m, file) ==
  IF ~file.isXml THEN Return(m)
  ELSE IF file.root = "Malformed" THEN Throw
  ELSE IF file.root = "Class"
       THEN LET r == processClassStructure(file) IN
            IF r.thrown THEN Throw ELSE Return(MapSet(m, r.value.name, r.value))
  ELSE IF file.root = "Enum"
       THEN LET r == processEnumStructure(file) IN
            IF r.thrown THEN Throw ELSE Return(MapSet(m, r.value.name, r.value))
  ELSE Return(m)

(***************************************************************************)
(* structures.ts: the type emitter                                          *)
(***************************************************************************)
propertyTSType(property) ==
  CASE property.type = "String"     -> "string"
    [] property.type = "Number"     -> "number"
    [] property.type = "Boolean"    -> "boolean"
    [] property.type = "Command"    -> "(parameter?: unknown) => unknown"
    [] property.type = "Object"     -> noesisSubtypeToTSConverter(property.subType)
    [] property.type = "Image"      -> "string | ImageSource"
    [] property.type = "Brush"      -> "string | Brush"
    [] property.type = "Font"       -> "FontFamily"
    [] property.type = "Enum"       -> noesisSubtypeToTSConverter(property.subType)
    [] property.type = "Collection" -> "Array<" \o noesisSubtypeToTSConverter(property.subType) \o ">"

\* One declaration of NoesisTypes.ts: `export type N = {...}` with its
\* `name: type;` lines, or `export enum N {...}` with its members.
TypeDecl(structure) ==
  [decl |-> "type", name |-> structure.name,
   props |-> [k \in 1..Len(structure.properties) |->
                [name |-> structure.properties[k].key,
                 type |-> propertyTSType(structure.properties[k].val)]],
   members |-> <<>>]

EnumDecl(structure) ==
  [decl |-> "enum", name |-> structure.name, props |-> <<>>,
   members |-> MapKeys(structure.items)]

RECURSIVE outputTypesFrom(_, _)
outputTypesFrom(out, m) ==
  IF m = <<>> THEN out
  ELSE LET structure == Head(m).val IN
       outputTypesFrom(
         IF structure.type = "Class" THEN Append(out, TypeDecl(structure))
         ELSE IF structure.type = "Enum" THEN Append(out, EnumDecl(structure))
         ELSE out,
         Tail(m))

outputTypes(m) == outputTypesFrom(<<>>, m)

(***************************************************************************)
(* datasets.ts: the data transformer                                        *)
(*                                                                          *)
(* A parsed data value (xml2js with explicitArray: true, after the value    *)
(* processors) is a string, a number, a boolean or a node; a node maps a    *)
(* field name to the array of its values.                                   *)
(***************************************************************************)
NoFields == [f \in {} |-> <<>>]

Str(text)  == [kind |-> "string",  text |-> text, fields |-> NoFields]
Num(text)  == [kind |-> "number",  text |-> text, fields |-> NoFields]
Bool(text) == [kind |-> "boolean", text |-> text, fields |-> NoFields]
Node(fields) == [kind |-> "node", text |-> "", fields |-> fields]

\* data[key] is not undefined
Has(data, key) == data.kind = "node" /\ key \in DOMAIN data.fields

\* `${value}`
TemplateString(value) == IF value.kind = "node" THEN "[object Object]" ELSE value.text

\* `${array}`: the elements joined by ","
RECURSIVE JoinArray(_)
JoinArray(array) ==
  IF Len(array) = 1 THEN TemplateString(array[1])
  ELSE TemplateString(array[1]) \o "," \o JoinArray(Tail(array))

\* An emitted value: a piece of text, an object literal with its
\* `name: value,` entries, or an array literal with its elements.
Text(text) == [k |-> "text", text |-> text, entries |-> <<>>, elems |-> <<>>]
ObjectLiteral(entries) == [k |-> "object", text |-> "", entries |-> entries, elems |-> <<>>]
ArrayLiteral(elems) == [k |-> "array", text |-> "", entries |-> <<>>, elems |-> elems]

\* str.replace(/"/g, '\\"'), on the texts of the data universe: the one text
\* with double quotes in it is rewritten, every other text has none.
escapeString(str) ==
  IF str = "say \"hi\"" THEN "say \\\"hi\\\"" ELSE str

\* imageSource.split(";", 2)[1]?.replace("component/", ""), on the texts of
\* the data universe; "" stands for undefined or empty (both falsy).
imagePathOf(imageSource) ==
  CASE imageSource = "pack;component/images/icon.png" -> "images/icon.png"
    [] imageSource = "pack;art/back.png"              -> "art/back.png"
    [] OTHER                                           -> ""

processCommand(commandData) ==
  Text("(parameter?: unknown) => { console.log(\""
       \o (IF Has(commandData, "Message") THEN JoinArray(commandData.fields["Message"])
           ELSE "undefined")
       \o "\", parameter ? parameter : \"\"); }")

\* One line of the console: console.warn(text) or console.error(text).  The
\* text is the message up to the dump of the value that follows it.
Warn(text) == [level |-> "warn", text |-> text]

Error(text) == [level |-> "error", text |-> text]

\* A value reached after the lines were logged.
Logged(lines, v) == [thrown |-> FALSE, value |-> v, log |-> lines]

\* The result r of a step taken after the lines were logged.
After(lines, r) == [r EXCEPT !.log = lines \o @]

\* collectionNotArray with the Array.isArray guard left out: forEach of
\* undefined throws.
collectionNotArrayThrows(structureName, propName, collectionType) == Throw

\* The else branch of Array.isArray(itemsData): a warning and `[]`.
collectionNotArray(structureName, propName, collectionType) ==
  Logged(<<Warn("Expected array for collection property " \o propName
                \o " type " \o collectionType
                \o " of structure " \o structureName)>>,
         Text("[]"))

RECURSIVE processDataStructure(_, _, _)
RECURSIVE processProperties(_, _, _, _, _)
RECURSIVE processArray(_, _, _, _)

\* absentValue with the subType left out of the undefined placeholder.
absentValueUntyped(property) ==
  CASE property.type = "String"     -> Text("\"\"")
    [] property.type = "Number"     -> Text("0")
    [] property.type = "Boolean"    -> Text("false")
    [] property.type = "Enum"       -> Text("undefined")
    [] property.type = "Font"       -> Text("FontFamily.Bangers")
    [] property.type = "Object"     -> Text("undefined")
    [] property.type = "Image"      -> Text("\"\"")
    [] property.type = "Brush"      -> Text("\"\"")
    [] property.type = "Collection" -> Text("[]")
    [] property.type = "Command"    -> Text("() => { console.warn('Command not defined'); }")

\* The else branches of the property switch: the value of a property whose
\* field the data node does not have.
absentValue(property) ==
  CASE property.type = "String"     -> Text("\"\"")
    [] property.type = "Number"     -> Text("0")
    [] property.type = "Boolean"    -> Text("false")
    [] property.type = "Enum"       -> Text("undefined as any as " \o property.subType)
    [] property.type = "Font"       -> Text("FontFamily.Bangers")
    [] property.type = "Object"     -> Text("undefined as any as " \o property.subType)
    [] property.type = "Image"      -> Text("\"\"")
    [] property.type = "Brush"      -> Text("\"\"")
    [] property.type = "Collection" -> Text("[]")
    [] property.type = "Command"    -> Text("() => { console.warn('Command not defined'); }")

\* The property switch: the value of one property of a Class.  propValue is
\* data[propName] and objectPropValue is data[`${structureName}.${propName}`];
\* either is truthy exactly when the field is there (an array).
processPropertyValue(m, structureName, propName, property, data) ==
  LET propValue == Has(data, propName)
      objectKey == structureName \o "." \o propName
      objectPropValue == Has(data, objectKey)
  IN
  CASE property.type = "String" ->
         IF propValue
         THEN LET v == data.fields[propName][1] IN
              IF v.kind = "string" THEN Return(Text("\"" \o escapeString(v.text) \o "\""))
              ELSE Throw \* str.replace is not a function
         ELSE Return(absentValue(property))
    [] property.type \in {"Number", "Boolean"} ->
         IF propValue THEN Return(Text(TemplateString(data.fields[propName][1])))
         ELSE Return(absentValue(property))
    [] property.type = "Enum" ->
         IF propValue
         THEN Return(Text(property.subType \o "." \o JoinArray(data.fields[propName])))
         ELSE Return(absentValue(property))
    [] property.type = "Font" ->
         IF propValue
         THEN Return(Text("FontFamily." \o TemplateString(data.fields[propName][1])))
         ELSE Return(absentValue(property))
    [] property.type = "Object" ->
         IF objectPropValue
         THEN LET wrapper == data.fields[objectKey][1] IN
              IF Has(wrapper, property.subType)
              THEN processDataStructure(m, <<property.subType>>,
                                        wrapper.fields[property.subType][1])
              ELSE Throw \* objectPropValue[0][property.subType] is undefined
         ELSE Return(absentValue(property))
    [] property.type = "Image" ->
         IF propValue
         THEN LET v == data.fields[propName][1] IN
              IF v.kind # "string" THEN Throw \* split is not a function
              ELSE IF imagePathOf(v.text) # ""
                   THEN Return(Text("\"" \o imagePathOf(v.text) \o "\""))
                   ELSE Logged(<<Warn("Image path not found for property " \o propName
                                      \o " of structure " \o structureName
                                      \o ": " \o v.text)>>,
                               Text("\"\""))
         ELSE Return(absentValue(property))
    [] property.type = "Brush" ->
         IF propValue
         THEN Return(Text("\"" \o TemplateString(data.fields[propName][1]) \o "\""))
         ELSE Return(absentValue(property))
    [] property.type = "Collection" ->
         IF objectPropValue
         THEN LET collectionType == noesisSubtypeToNoesisTypeConverter(property.subType)
                  wrapper == data.fields[objectKey][1]
              IN IF Has(wrapper, collectionType)
                 THEN processArray(m, collectionType, wrapper.fields[collectionType], <<>>)
                 ELSE collectionNotArray(structureName, propName, collectionType)
         ELSE Return(absentValue(property))
    [] property.type = "Command" ->
         IF objectPropValue
         THEN LET commandData == data.fields[objectKey][1] IN
              IF Has(commandData, "MessageCommand")
              THEN Return(processCommand(commandData.fields["MessageCommand"][1]))
              ELSE Logged(<<Warn("Unknown command type for property " \o propName
                                 \o " of structure " \o structureName
                                 \o ": " \o TemplateString(commandData))>>,
                          Text("() => { console.warn('Command type not recognized'); }"))
         ELSE Return(absentValue(property))

RECURSIVE processPropertiesOmitAbsent(_, _, _, _, _)
\* processProperties writing no entry for a property whose field is absent.
processPropertiesOmitAbsent(m, structureName, properties, data, entries) ==
  IF properties = <<>> THEN Return(ObjectLiteral(entries))
  ELSE LET propName == Head(properties).key
           r == processPropertyValue(m, structureName, propName, Head(properties).val, data)
           absent == ~Has(data, propName) /\ ~Has(data, structureName \o "." \o propName)
       IN IF r.thrown THEN r
          ELSE After(r.log,
                 processPropertiesOmitAbsent(m, structureName, Tail(properties), data,
                   IF absent THEN entries
                   ELSE Append(entries, [name |-> propName, value |-> r.value])))

\* structure.properties.forEach(...): one `propName: value,` entry per
\* property, appended to the entries so far; a throw ends the walk.  What a
\* step logs stays logged whatever the later steps do.
processProperties(m, structureName, properties, data, entries) ==
  IF properties = <<>> THEN Return(ObjectLiteral(entries))
  ELSE LET r == processPropertyValue(m, structureName, Head(properties).key,
                                     Head(properties).val, data)
       IN IF r.thrown THEN r
          ELSE After(r.log,
                 processProperties(m, structureName, Tail(properties), data,
                                   Append(entries, [name |-> Head(properties).key, value |-> r.value])))

\* itemsData.forEach(...): one element per item.
processArray(m, itemType, itemsData, elems) ==
  IF itemsData = <<>> THEN Return(ArrayLiteral(elems))
  ELSE LET r == processDataStructure(m, <<itemType>>, Head(itemsData)) IN
       IF r.thrown THEN r
       ELSE After(r.log, processArray(m, itemType, Tail(itemsData), Append(elems, r.value)))

processBuiltIn(name, data) ==
  CASE name \in {"Single", "Boolean", "Color"} -> Return(Text(TemplateString(data)))
    [] name = "String" ->
         IF data.kind = "string" THEN Return(Text("\"" \o escapeString(data.text) \o "\""))
         ELSE Throw
    [] name = "BitmapImage" ->
         IF ~Has(data, "UriSource") THEN Throw
         ELSE LET v == data.fields["UriSource"][1] IN
              IF v.kind # "string" THEN Throw
              ELSE IF imagePathOf(v.text) # ""
                   THEN Return(Text("\"" \o imagePathOf(v.text) \o "\""))
                   ELSE Logged(<<Warn("Image path not found fo built-in structure " \o name
                                      \o ": " \o v.text)>>,
                               Text(""))
    [] name = "SolidColorBrush" ->
         IF Has(data, "Color")
         THEN Return(Text("\"" \o TemplateString(data.fields["Color"][1]) \o "\""))
         ELSE Throw
    [] name = "MessageCommand" -> Return(processCommand(data))
    [] OTHER -> Logged(<<Error("Unknown built-in: " \o name)>>, Text("")) \* result stays ""

processDataStructure(m, structureType, data) ==
  LET structureName == Last(structureType) IN
  IF ~MapHas(m, structureName)
  THEN Logged(<<Error("Unknown structure type for data: " \o structureName)>>,
              Text("")) \* result stays ""
  ELSE LET structure == MapGet(m, structureName) IN
       IF structure.type = "Class"
       THEN processProperties(m, structureName, structure.properties, data, <<>>)
       ELSE IF structure.type = "Enum"
       THEN Return(Text(structure.name \o "." \o TemplateString(data)))
       ELSE processBuiltIn(structure.name, data)

RECURSIVE importsFrom(_)
\* structures.values().filter(value => value.type !== "BuiltIn").map(value => value.name)
importsFrom(m) ==
  IF m = <<>> THEN <<>>
  ELSE IF Head(m).val.type # "BuiltIn"
       THEN <<Head(m).val.name>> \o importsFrom(Tail(m))
       ELSE importsFrom(Tail(m))

\* One iteration of outputDataSets' loop on one data file: the module it
\* writes, or a throw that rejects outputDataSets.
outputDataSet(m, file) ==
  IF ~file.parses THEN Throw
  ELSE LET dataSet == processDataStructure(m, file.root, file.data) IN
       IF dataSet.thrown THEN dataSet
       ELSE Logged(dataSet.log,
                   [imports |-> importsFrom(m),
                    structureType |-> file.root,
                    dataSet |-> dataSet.value])

(***************************************************************************)
(* The inputs: schema files and data files                                  *)
(***************************************************************************)
MaxSources == 2  \* entries of the structures directory (schema specification)
MaxFiles == 2    \* data files of the sets directory (data specification)

SeqsUpTo(S, n) == UNION {[1..k -> S] : k \in 0..n}

Restrict(f, S) == [k \in S |-> f[k]]

\* A parsed schema file: its root element with the attributes merged in and
\* the child elements in document order.
Prop(name, type, subType) == [Name |-> name, Type |-> type, SubType |-> subType]
Item(name, value) == [Name |-> name, Value |-> value]

ClassSource(name, props) ==
  [isXml |-> TRUE, root |-> "Class", Name |-> name, Property |-> props, Item |-> <<>>]
EnumSource(name, items) ==
  [isXml |-> TRUE, root |-> "Enum", Name |-> name, Property |-> <<>>, Item |-> items]
\* neither a Class nor an Enum root
OtherSource == [isXml |-> TRUE, root |-> "Resource", Name |-> "", Property |-> <<>>, Item |-> <<>>]
\* not well-formed XML: parseStringPromise rejects
MalformedSource == [isXml |-> TRUE, root |-> "Malformed", Name |-> "", Property |-> <<>>, Item |-> <<>>]
\* a directory entry whose name does not end in ".xml"
NotXmlEntry == [isXml |-> FALSE, root |-> "", Name |-> "", Property |-> <<>>, Item |-> <<>>]

\* Property declarations: recognized Types and unrecognized ones, with
\* subTypes that name a class, an enum or nothing.
FirstProps ==
  { Prop("Title", "String", <<>>),
    Prop("Junk", "Vector", <<>>),
    Prop("Top", "Object", <<"Model", "Card">>),
    Prop("Suit", "Enum", <<"Model", "Suit">>),
    Prop("Ghosts", "Collection", <<"Missing">>) }

SecondProps ==
  { Prop("Power", "Number", <<>>),
    Prop("Extra", "Matrix", <<>>) }

PropLists ==
  {<<a>> : a \in FirstProps} \cup {<<a, b>> : a \in FirstProps, b \in SecondProps}

ItemLists ==
  { <<Item("Hearts", 1)>>,
    <<Item("Hearts", 1), Item("Spades", 2)>>,
    <<Item("Spades", 4), Item("Hearts", 3)>> }

\* The schema files a structures directory may hold.  "Visibility" is also a
\* built-in enum, and "Card" is the name of a class and of an enum.
SchemaSources ==
  {ClassSource("Card", ps) : ps \in PropLists}
  \cup {ClassSource("Visibility", <<Prop("Power", "Number", <<>>)>>)}
  \cup {EnumSource(n, items) : n \in {"Suit", "Card"}, items \in ItemLists}
  \cup {OtherSource, MalformedSource, NotXmlEntry}

SchemaDirs == SeqsUpTo(SchemaSources, MaxSources)

\* The project of the data specification: four classes with every property
\* kind between them, and an enum.
CardClass == ClassSource("Card",
  << Prop("Title", "String", <<>>), Prop("Power", "Number", <<>>),
     Prop("Rare", "Boolean", <<>>) >>)
DeckClass == ClassSource("Deck",
  << Prop("Suit", "Enum", <<"Model", "Suit">>), Prop("Top", "Object", <<"Model", "Card">>),
     Prop("Cards", "Collection", <<"Card">>) >>)
OddClass == ClassSource("Odd",
  << Prop("Ghost", "Object", <<"Missing">>), Prop("Ghosts", "Collection", <<"Missing">>),
     Prop("Tints", "Collection", <<"Brush">>) >>)
LookClass == ClassSource("Look",
  << Prop("Face", "Object", <<"FontFamily">>), Prop("Art", "Object", <<"ImageSource">>),
     Prop("Back", "Object", <<"Brush">>), Prop("Play", "Command", <<>>) >>)
SuitEnum == EnumSource("Suit", <<Item("Hearts", 0), Item("Spades", 1)>>)

\* The second project lacks the Card class that Deck refers to.
Projects ==
  { <<CardClass, DeckClass, OddClass, LookClass, SuitEnum>>,
    <<DeckClass, OddClass, SuitEnum>> }

\* A data file: whether it parses, its root element name (segments) and the
\* value under it.
DataFile(root, data) == [parses |-> TRUE, root |-> root, data |-> data]
MalformedData == [parses |-> FALSE, root |-> <<"">>, data |-> Str("")]

\* An element with no attribute and no child parses to the empty string.
NodeOf(fields) == IF DOMAIN fields = {} THEN Str("") ELSE Node(fields)

CardFields ==
  "Title" :> <<Str("Ace")>> @@ "Power" :> <<Num("3")>> @@ "Rare" :> <<Bool("true")>>
CardFull == Node(CardFields)
CardTitled == Node("Title" :> <<Str("say \"hi\"")>>)

CardNodes ==
  {NodeOf(Restrict(CardFields, S)) : S \in SUBSET {"Title", "Power", "Rare"}}
  \cup { CardTitled,
         Node("Title" :> <<Num("7")>> @@ "Power" :> <<Num("3")>>) }

DeckFields ==
  "Suit" :> <<Str("Hearts")>>
  @@ "Deck.Top" :> <<Node("Card" :> <<CardFull>>)>>
  @@ "Deck.Cards" :> <<Node("Card" :> <<CardFull, CardTitled>>)>>

DeckNodes ==
  {NodeOf(Restrict(DeckFields, S)) : S \in {{}, {"Suit"}, {"Deck.Top"}, {"Deck.Cards"},
                                            {"Suit", "Deck.Top", "Deck.Cards"}}}
  \cup { Node("Deck.Top" :> <<Node("Stats" :> <<CardFull>>)>>),
         Node("Deck.Cards" :> <<Node("Card" :> <<Str("")>>)>>),
         Node("Deck.Cards" :> <<Str("")>>) }

OddFields ==
  "Odd.Ghost" :> <<Node("Missing" :> <<CardFull>>)>>
  @@ "Odd.Ghosts" :> <<Node("Missing" :> <<CardFull>>)>>
  @@ "Odd.Tints" :> <<Node("SolidColorBrush" :> <<Node("Color" :> <<Str("#fff")>>)>>)>>

OddNodes ==
  {NodeOf(Restrict(OddFields, S)) : S \in {{}, {"Odd.Ghost"}, {"Odd.Ghosts"}, {"Odd.Tints"}}}
  \cup { Node("Odd.Tints" :> <<Node("Brush" :> <<Str("#fff")>>)>>) }

LookFields ==
  "Face" :> <<Str("Oswald")>>
  @@ "Art" :> <<Str("pack;component/images/icon.png")>>
  @@ "Back" :> <<Str("#fff")>>
  @@ "Look.Play" :> <<Node("MessageCommand" :> <<Node("Message" :> <<Str("hi")>>)>>)>>

LookNodes ==
  { Str(""), Node(LookFields),
    Node("Art" :> <<Str("icon.png")>>),
    Node("Look.Play" :> <<Node("OtherCommand" :> <<Str("")>>)>>) }

\* The data files a sets directory may hold: roots of each class, a qualified
\* root, a root that names an enum, one that names nothing, and a file that
\* does not parse.
DataFiles ==
  {DataFile(<<"Card">>, n) : n \in CardNodes}
  \cup {DataFile(<<"Deck">>, n) : n \in DeckNodes}
  \cup {DataFile(<<"Odd">>, n) : n \in OddNodes}
  \cup {DataFile(<<"Look">>, n) : n \in LookNodes}
  \cup { DataFile(<<"Model", "Card">>, CardFull),
         DataFile(<<"Suit">>, Str("Hearts")),
         DataFile(<<"Phantom">>, CardFull),
         MalformedData }

DataDirs == SeqsUpTo(DataFiles, MaxFiles)

\* The sets directory of the schema specification.
FewDataDirs == {<<>>, <<DataFile(<<"Card">>, CardFull)>>}

(***************************************************************************)
(* cli.ts: the run                                                          *)
(***************************************************************************)
Init ==
  /\ pc = "start"
  /\ typesOnly \in BOOLEAN
  /\ structureFiles = <<>>
  /\ i = 1
  /\ structures = <<>>
  /\ typesFile = <<>>
  /\ dataFiles = <<>>
  /\ j = 1
  /\ scriptFiles = <<>>
  /\ console = <<>>

\* readStructures up to its loop: the built-ins are seeded and the
\* directory is listed.
ReadStructuresStart(dirs) ==
  /\ pc = "start"
  /\ structures' = addBuiltInEnums(addBuiltInTypes(<<>>))
  /\ structureFiles' \in dirs
  /\ i' = 1
  /\ pc' = "readStructures"
  /\ UNCHANGED <<typesOnly, typesFile, dataFiles, j, scriptFiles, console>>

\* One iteration of readStructures' loop.
ReadStructuresLoop ==
  /\ pc = "readStructures"
  /\ i <= Len(structureFiles)
  /\ LET r == readStructureFile(structures, structureFiles[i]) IN
     IF r.thrown
     THEN pc' = "rejected" /\ UNCHANGED <<structures, i>>
     ELSE pc' = pc /\ structures' = r.value /\ i' = i + 1
  /\ UNCHANGED <<typesOnly, structureFiles, typesFile, dataFiles, j, scriptFiles, console>>

ReadStructuresReturn ==
  /\ pc = "readStructures"
  /\ i > Len(structureFiles)
  /\ pc' = "outputTypes"
  /\ UNCHANGED <<typesOnly, structureFiles, i, structures, typesFile, dataFiles, j, scriptFiles, console>>

\* cli.ts line 24 and the branch on options.typesOnly after it.
CliOutputTypes ==
  /\ pc = "outputTypes"
  /\ typesFile' = outputTypes(structures)
  /\ pc' = IF typesOnly THEN "done" ELSE "outputDataSets"
  /\ UNCHANGED <<typesOnly, structureFiles, i, structures, dataFiles, j, scriptFiles, console>>

\* outputDataSets up to its loop: the sets directory is listed (with a set
\* name given, the list is the one file of that name).
OutputDataSetsStart(dirs) ==
  /\ pc = "outputDataSets"
  /\ dataFiles' \in dirs
  /\ j' = 1
  /\ pc' = "dataSets"
  /\ UNCHANGED <<typesOnly, structureFiles, i, structures, typesFile, scriptFiles, console>>

\* OutputDataSetsLoop registering a root name that the registry lacks.
OutputDataSetsLoopRegistering ==
  /\ pc = "dataSets"
  /\ j <= Len(dataFiles)
  /\ LET r == outputDataSet(structures, dataFiles[j])
         name == Last(dataFiles[j].root)
     IN /\ console' = console \o r.log
        /\ IF r.thrown
           THEN pc' = "rejected" /\ UNCHANGED <<j, scriptFiles, structures>>
           ELSE /\ pc' = pc
                /\ scriptFiles' = Append(scriptFiles, [file |-> j, module |-> r.value])
                /\ j' = j + 1
                /\ structures' = IF MapHas(structures, name) THEN structures
                                 ELSE MapSet(structures, name, NoesisBuiltIn(name))
  /\ UNCHANGED <<typesOnly, structureFiles, i, typesFile, dataFiles>>

\* One iteration of outputDataSets' loop: read, parse, transform, write.
OutputDataSetsLoop ==
  /\ pc = "dataSets"
  /\ j <= Len(dataFiles)
  /\ LET r == outputDataSet(structures, dataFiles[j]) IN
     /\ console' = console \o r.log
     /\ IF r.thrown
        THEN pc' = "rejected" /\ UNCHANGED <<j, scriptFiles>>
        ELSE /\ pc' = pc
             /\ scriptFiles' = Append(scriptFiles, [file |-> j, module |-> r.value])
             /\ j' = j + 1
  /\ UNCHANGED <<typesOnly, structureFiles, i, structures, typesFile, dataFiles>>

OutputDataSetsReturn ==
  /\ pc = "dataSets"
  /\ j > Len(dataFiles)
  /\ pc' = "done"
  /\ UNCHANGED <<typesOnly, structureFiles, i, structures, typesFile, dataFiles, j, scriptFiles, console>>

\* The data specification: a fixed project, any sets directory.
Next ==
  \/ ReadStructuresStart(Projects)
  \/ ReadStructuresLoop
  \/ ReadStructuresReturn
  \/ CliOutputTypes
  \/ OutputDataSetsStart(DataDirs)
  \/ OutputDataSetsLoop
  \/ OutputDataSetsReturn

Spec == Init /\ [][Next]_vars

\* The schema specification: any structures directory, a small sets directory.
NextSchema ==
  \/ ReadStructuresStart(SchemaDirs)
  \/ ReadStructuresLoop
  \/ ReadStructuresReturn
  \/ CliOutputTypes
  \/ OutputDataSetsStart(FewDataDirs)
  \/ OutputDataSetsLoop
  \/ OutputDataSetsReturn

SpecSchema == Init /\ [][NextSchema]_vars

(***************************************************************************)
(* Properties of the data transformer (specification Spec)                  *)
(***************************************************************************)
\* The data file of index k has its module written.
Written(k) == \E w \in 1..Len(scriptFiles) : scriptFiles[w].file = k

ModuleOf(k) == scriptFiles[CHOOSE w \in 1..Len(scriptFiles) : scriptFiles[w].file = k].module

IsClass(m, name) == MapHas(m, name) /\ MapGet(m, name).type = "Class"

\* The field of the data node that the property is read from.
FieldOf(structureName, propName, property) ==
  IF property.type \in {"Object", "Collection", "Command"}
  THEN structureName \o "." \o propName
  ELSE propName

\* C1: in all-files mode a data file whose processing fails (parse or
\* transform raises) does not prevent the others: once the run has ended,
\* every data file of the list that does not itself fail has its module.
C1_FailureSparesOtherFiles ==
  pc \in {"done", "rejected"} =>
    \A k \in 1..Len(dataFiles) :
      ~outputDataSet(structures, dataFiles[k]).thrown => Written(k)

\* The values C2 calls placeholders: the undefined-typed reference, the empty
\* literal and the empty sequence.
Placeholders(property) ==
  { Text("undefined as any as " \o property.subType), Text("\"\""), Text("[]"),
    ArrayLiteral(<<>>) }

\* C2: a data file whose root class has an Object or Collection property
\* with a subType that resolves to nothing in the registry, present in the
\* data, is transformed without aborting and the property's value is a
\* placeholder.
C2_UnresolvedSubTypeGivesPlaceholder ==
  \A k \in 1..Len(dataFiles) :
    LET file == dataFiles[k]
        name == Last(file.root)
    IN ((k < j \/ (k = j /\ pc = "rejected")) /\ file.parses /\ IsClass(structures, name)) =>
       LET properties == MapGet(structures, name).properties IN
       \A q \in 1..Len(properties) :
         LET property == properties[q].val IN
         ( /\ property.type \in {"Object", "Collection"}
           /\ ~MapHas(structures, property.subType)
           /\ Has(file.data, FieldOf(name, properties[q].key, property)) )
         => /\ Written(k)
            /\ ModuleOf(k).dataSet.entries[q].value \in Placeholders(property)

\* C3: a data file whose root element name resolves to nothing in the
\* registry gets no data module, and the other data files of the run get
\* theirs.
C3_UnresolvedRootWritesNoModule ==
  /\ \A w \in 1..Len(scriptFiles) :
       MapHas(structures, Last(dataFiles[scriptFiles[w].file].root))
  /\ pc = "done" =>
       \A k \in 1..Len(dataFiles) :
         MapHas(structures, Last(dataFiles[k].root)) => Written(k)

RECURSIVE ListsDeclaredProperties(_, _, _)
\* An emitted value for a name that resolves to a Class is an object literal
\* whose entries are named as the class's properties, in their order, and
\* so are the object literals nested in it.
ListsDeclaredProperties(m, typeName, out) ==
  IsClass(m, typeName) =>
    LET properties == MapGet(m, typeName).properties IN
    /\ out.k = "object"
    /\ [q \in 1..Len(out.entries) |-> out.entries[q].name] = MapKeys(properties)
    /\ \A q \in 1..Len(properties) :
         LET property == properties[q].val
             value == out.entries[q].value
         IN /\ (property.type = "Object" /\ value.k = "object") =>
                 ListsDeclaredProperties(m, property.subType, value)
            /\ (property.type = "Collection" /\ value.k = "array") =>
                 \A e \in 1..Len(value.elems) :
                   ListsDeclaredProperties(
                     m, noesisSubtypeToNoesisTypeConverter(property.subType), value.elems[e])

\* C4: the literal emitted for a data node of a Class has exactly one entry
\* per declared property, in the registry's insertion order, whichever
\* fields the node has.
C4_OneEntryPerDeclaredProperty ==
  \A w \in 1..Len(scriptFiles) :
    ListsDeclaredProperties(structures, Last(dataFiles[scriptFiles[w].file].root),
                            scriptFiles[w].module.dataSet)

\* A Deck with its Top object and without its Suit and Cards has been
\* written with three entries, the second an object literal.
C4_Witness ==
  \E w \in 1..Len(scriptFiles) :
    LET file == dataFiles[scriptFiles[w].file]
        out == scriptFiles[w].module.dataSet
    IN /\ file.root = <<"Deck">>
       /\ Has(file.data, "Deck.Top") /\ ~Has(file.data, "Suit") /\ ~Has(file.data, "Deck.Cards")
       /\ Len(out.entries) = Len(MapGet(structures, "Deck").properties)
       /\ out.entries[2].value.k = "object"

\* The defaults C5 documents.
DocumentedDefault(property) ==
  CASE property.type = "String"  -> Text("\"\"")
    [] property.type = "Number"  -> Text("0")
    [] property.type = "Boolean" -> Text("false")
    [] property.type \in {"Object", "Enum"} -> Text("undefined as any as " \o property.subType)
    [] property.type = "Collection" -> Text("[]")

RECURSIVE AbsentFieldsGetDefaults(_, _, _, _)
\* In the value emitted for data against typeName, and in the values nested
\* in it, a property whose field is absent has its documented default.
AbsentFieldsGetDefaults(m, typeName, data, out) ==
  IsClass(m, typeName) =>
    LET properties == MapGet(m, typeName).properties IN
    \A q \in 1..Len(properties) :
      LET property == properties[q].val
          field == FieldOf(typeName, properties[q].key, property)
          value == out.entries[q].value
          tag == IF property.type = "Collection"
                 THEN noesisSubtypeToNoesisTypeConverter(property.subType)
                 ELSE property.subType
      IN /\ ( /\ property.type \in {"String", "Number", "Boolean", "Object", "Enum", "Collection"}
              /\ ~Has(data, field) )
            => value = DocumentedDefault(property)
         /\ ( /\ property.type \in {"Object", "Collection"}
              /\ Has(data, field)
              /\ Has(data.fields[field][1], tag) )
            => LET items == data.fields[field][1].fields[tag] IN
               IF property.type = "Object"
               THEN AbsentFieldsGetDefaults(m, tag, items[1], value)
               ELSE \A e \in 1..Len(items) :
                      AbsentFieldsGetDefaults(m, tag, items[e], value.elems[e])

\* C5: the value emitted for a declared property whose field is absent from
\* the data node is "" for a String, 0 for a Number, false for a Boolean,
\* `undefined as any as T` for an Object or Enum of subType T, and [] for
\* a Collection.
C5_AbsentFieldDefaults ==
  \A w \in 1..Len(scriptFiles) :
    AbsentFieldsGetDefaults(structures, Last(dataFiles[scriptFiles[w].file].root),
                            dataFiles[scriptFiles[w].file].data,
                            scriptFiles[w].module.dataSet)

\* A Card and a Deck, neither with any field, have both been written.
C5_Witness ==
  /\ \E w \in 1..Len(scriptFiles) :
       /\ dataFiles[scriptFiles[w].file] = DataFile(<<"Card">>, Str(""))
       /\ IsClass(structures, "Card")
  /\ \E w \in 1..Len(scriptFiles) :
       /\ dataFiles[scriptFiles[w].file] = DataFile(<<"Deck">>, Str(""))
       /\ IsClass(structures, "Deck")

(***************************************************************************)
(* Properties of the schema loader and the type emitter (SpecSchema)        *)
(***************************************************************************)
\* The file defines a registry entry of that name.
Defines(file, name) == file.isXml /\ file.root \in {"Class", "Enum"} /\ file.Name = name

\* The directory entries the loader has come to: those it has processed
\* and, when it has thrown, the one it threw on.
ReachedSources ==
  {k \in 1..Len(structureFiles) : k < i \/ (k = i /\ pc = "rejected")}

\* No reached entry after k defines the name that entry k defines.
IsLastDefiner(k) ==
  \A l \in ReachedSources : l > k => ~Defines(structureFiles[l], structureFiles[k].Name)

DefinitionOf(file) ==
  IF file.root = "Class" THEN processClassStructure(file).value
  ELSE processEnumStructure(file).value

Seeded == addBuiltInEnums(addBuiltInTypes(<<>>))

\* C6: with the built-ins seeded and the sources so far loaded, the registry
\* holds exactly one entry per name; the entry of a name that sources define
\* is the definition from the last of them, the entry of any other name is
\* its seeded one; every seeded and every defined name has an entry.
C6_LastSourceWins ==
  pc # "start" =>
    /\ \A a, b \in 1..Len(structures) : structures[a].key = structures[b].key => a = b
    /\ \A a \in 1..Len(structures) :
         LET name == structures[a].key
             definers == {k \in 1..(i - 1) : Defines(structureFiles[k], name)}
         IN IF definers # {}
            THEN structures[a].val =
                   DefinitionOf(structureFiles[CHOOSE k \in definers : \A l \in definers : l <= k])
            ELSE MapHas(Seeded, name) /\ structures[a].val = MapGet(Seeded, name)
    /\ \A k \in 1..(i - 1) :
         Defines(structureFiles[k], structureFiles[k].Name) =>
           MapHas(structures, structureFiles[k].Name)
    /\ \A a \in 1..Len(Seeded) : MapHas(structures, Seeded[a].key)

\* The loader has returned after two sources with different definitions of
\* one name, and the registry holds the second.
C6_Witness ==
  /\ pc = "outputTypes"
  /\ \E k, l \in 1..Len(structureFiles) :
       /\ k < l
       /\ Defines(structureFiles[k], structureFiles[l].Name)
       /\ Defines(structureFiles[l], structureFiles[l].Name)
       /\ DefinitionOf(structureFiles[k]) # DefinitionOf(structureFiles[l])
       /\ MapGet(structures, structureFiles[l].Name) = DefinitionOf(structureFiles[l])

RecognizedTypes == {"Object", "Enum", "String", "Number", "Boolean", "Collection", "Command"}

IsRecognized(prop) == prop.Type \in RecognizedTypes

\* The names of the source's properties with a recognized Type, in
\* declaration order.
ClassifiedNames(file) ==
  LET ps == SelectSeq(file.Property, IsRecognized) IN [q \in 1..Len(ps) |-> ps[q].Name]

NamesOf(props) == [q \in 1..Len(props) |-> props[q].name]

\* C7: a Class source is registered with its recognized properties, the
\* others dropped, and the type declaration emitted for it lists exactly
\* those properties in declaration order.
C7_ClassKeepsClassifiedProperties ==
  \A k \in ReachedSources :
    LET file == structureFiles[k] IN
    (file.isXml /\ file.root = "Class" /\ IsLastDefiner(k)) =>
      /\ IsClass(structures, file.Name)
      /\ MapKeys(MapGet(structures, file.Name).properties) = ClassifiedNames(file)
      /\ typesFile # <<>> =>
           \E d \in 1..Len(typesFile) :
             /\ typesFile[d].name = file.Name
             /\ typesFile[d].decl = "type"
             /\ NamesOf(typesFile[d].props) = ClassifiedNames(file)

\* The declarations are written, one of them for a class whose source has
\* a property of unrecognized Type before a recognized one.
C7_Witness ==
  /\ typesFile # <<>>
  /\ \E k \in 1..Len(structureFiles) :
       LET file == structureFiles[k] IN
       /\ file.isXml /\ file.root = "Class" /\ IsLastDefiner(k)
       /\ Len(file.Property) = 2
       /\ ~IsRecognized(file.Property[1])
       /\ IsRecognized(file.Property[2])
       /\ \E d \in 1..Len(typesFile) :
            typesFile[d].name = file.Name /\ Len(typesFile[d].props) = 1

DeclaredItemNames(file) == [q \in 1..Len(file.Item) |-> file.Item[q].Name]

\* C8: an Enum source with one or many Items is registered with exactly its
\* items in declaration order and emitted with the same members; a built-in
\* enum that no source redefines has its canonical members.
C8_EnumKeepsDeclaredItems ==
  /\ \A k \in ReachedSources :
       LET file == structureFiles[k] IN
       (file.isXml /\ file.root = "Enum" /\ Len(file.Item) >= 1 /\ IsLastDefiner(k)) =>
         /\ MapHas(structures, file.Name)
         /\ MapGet(structures, file.Name).type = "Enum"
         /\ MapKeys(MapGet(structures, file.Name).items) = DeclaredItemNames(file)
         /\ typesFile # <<>> =>
              \E d \in 1..Len(typesFile) :
                /\ typesFile[d].name = file.Name
                /\ typesFile[d].decl = "enum"
                /\ typesFile[d].members = DeclaredItemNames(file)
  /\ pc # "start" =>
       \A b \in 1..Len(NoesisBuiltInEnums) :
         (\A k \in ReachedSources : ~Defines(structureFiles[k], NoesisBuiltInEnums[b].name)) =>
           /\ MapHas(structures, NoesisBuiltInEnums[b].name)
           /\ MapKeys(MapGet(structures, NoesisBuiltInEnums[b].name).items)
                = NoesisBuiltInEnums[b].items

\* The results of the remap table's cases.
RemapResults ==
  { "number", "string", "boolean", "string | ImageSource", "string | Brush",
    "(parameter?: unknown) => unknown" }

\* C9: every type name the emitter writes for the subType of an Object,
\* Enum or Collection property is a result of the remap table or the name
\* of a declaration of the same file.
C9_EmittedReferencesResolve ==
  typesFile # <<>> =>
    \A d \in 1..Len(typesFile) :
      typesFile[d].decl = "type" =>
        LET properties == MapGet(structures, typesFile[d].name).properties IN
        \A q \in 1..Len(properties) :
          LET property == properties[q].val
              written == noesisSubtypeToTSConverter(property.subType)
          IN property.type \in {"Object", "Enum", "Collection"} =>
               /\ typesFile[d].props[q].type =
                    (IF property.type = "Collection" THEN "Array<" \o written \o ">" ELSE written)
               /\ \/ written \in RemapResults
                  \/ \E e \in 1..Len(typesFile) : typesFile[e].name = written

(***************************************************************************)
(* The registry across the run (specification Spec)                         *)
(***************************************************************************)
RECURSIVE LoaderResult(_, _)
\* The registry readStructures returns for the directory: its loop from the
\* seeded registry.
LoaderResult(m, files) ==
  IF files = <<>> THEN m
  ELSE LoaderResult(readStructureFile(m, Head(files)).value, Tail(files))

LoaderRuns == pc \in {"start", "readStructures"}

\* C10: the registry is frozen once the loader has returned.  No step taken
\* after the load changes the registry; the declarations and the data
\* modules are written only after the load; and each data module is written
\* against the registry the loader produced (its imports are that
\* registry's names).
C10_RegistryFrozenAfterLoad ==
  /\ [][ /\ ~LoaderRuns => structures' = structures
         /\ (typesFile' # typesFile \/ scriptFiles' # scriptFiles) => ~LoaderRuns ]_vars
  /\ [](\A w \in 1..Len(scriptFiles) :
          scriptFiles[w].module.imports = importsFrom(LoaderResult(Seeded, structureFiles)))

\* The run has ended with the declarations and two data modules written.
C10_Witness ==
  /\ pc = "done"
  /\ typesFile # <<>>
  /\ Len(scriptFiles) = 2

(***************************************************************************)
(* Collections without their element tag (specification Spec)               *)
(***************************************************************************)
\* The data file of index k has been transformed: its module is written or
\* its transform rejected outputDataSets.
Transformed(k) == k < j \/ (k = j /\ pc = "rejected")

\* The property is a Collection whose field the data node has, and the
\* field's wrapper element holds no element of the data-side tag.
ElementTagMissing(structureName, propName, property, data) ==
  /\ property.type = "Collection"
  /\ Has(data, structureName \o "." \o propName)
  /\ ~Has(data.fields[structureName \o "." \o propName][1],
          noesisSubtypeToNoesisTypeConverter(property.subType))

ExpectedArrayWarning(structureName, propName, property) ==
  Warn("Expected array for collection property " \o propName
       \o " type " \o noesisSubtypeToNoesisTypeConverter(property.subType)
       \o " of structure " \o structureName)

OnConsole(line) == \E c \in 1..Len(console) : console[c] = line

\* C11: a Collection property of a data file's root class whose field is in
\* the data while the field holds no element of the data-side tag (the
\* subType through the alias table) is encoded as `[]` with one warning
\* logged, and encoding it does not throw; when the file's module is written
\* the entry of the property is `[]` and the warning is on the console, and
\* when the file's transform threw, another property is the one that threw.
C11_MissingElementTagGivesEmptySequence ==
  \A k \in 1..Len(dataFiles) :
    LET name == Last(dataFiles[k].root)
        data == dataFiles[k].data
    IN (Transformed(k) /\ dataFiles[k].parses /\ IsClass(structures, name)) =>
         LET properties == MapGet(structures, name).properties IN
         \A q \in 1..Len(properties) :
           ElementTagMissing(name, properties[q].key, properties[q].val, data) =>
             LET r == processPropertyValue(structures, name, properties[q].key,
                                           properties[q].val, data)
                 warning == ExpectedArrayWarning(name, properties[q].key, properties[q].val)
             IN /\ ~r.thrown
                /\ r.value = Text("[]")
                /\ r.log = <<warning>>
                /\ Written(k) => /\ ModuleOf(k).dataSet.entries[q].name = properties[q].key
                                 /\ ModuleOf(k).dataSet.entries[q].value = Text("[]")
                                 /\ OnConsole(warning)
                /\ ~Written(k) =>
                     \E o \in 1..Len(properties) :
                       /\ o # q
                       /\ processPropertyValue(structures, name, properties[o].key,
                                               properties[o].val, data).thrown

\* A module is written for an Odd node whose Tints wrapper (subType Brush,
\* data-side tag SolidColorBrush) holds a Brush element only: the Tints entry
\* is `[]` and the warning is on the console.
C11_Witness ==
  \E w \in 1..Len(scriptFiles) :
    /\ dataFiles[scriptFiles[w].file] =
         DataFile(<<"Odd">>, Node("Odd.Tints" :> <<Node("Brush" :> <<Str("#fff")>>)>>))
    /\ scriptFiles[w].module.dataSet.entries[3] = [name |-> "Tints", value |-> Text("[]")]
    /\ OnConsole(Warn("Expected array for collection property Tints type SolidColorBrush of structure Odd"))

====
